---------------------------- MODULE Spec2Model ----------------------------
(***************************************************************************)
(* Model of github.com/ctcac00/metrics-tui:                                *)
(*   - the alert engine   (pkg/ui/components, AlertManager)                *)
(*   - the aggregator     (pkg/collectors, Aggregator)                     *)
(*   - the collectors, their rates and the snapshot (pkg/collectors)       *)
(*   - the history buffers (internal/data, HistoryData)                    *)
(*   - the validation of the configured thresholds (Config.Validate)       *)
(* Floating point values are modelled by small integers: the code only     *)
(* compares them.  time.Now() is modelled by a logical clock that advances  *)
(* every time it is read.                                                  *)
(***************************************************************************)
EXTENDS Integers, Sequences, FiniteSets, TLC

VARIABLES
    \* ---- AlertManager (src/unnamed/part_009) ----
    alerts,        \* map key -> Alert            (a.alerts)
    thresholds,    \* map metric -> ThresholdConfig (a.thresholds)
    history,       \* sequence of Alert           (a.history)
    enabled,       \* BOOLEAN                     (a.enabled)
    clock,         \* logical time returned by time.Now()
    lastOp,        \* the last AlertManager call and its arguments
    \* ---- Aggregator (src/pkg/collectors/aggregator.go) ----
    data,          \* a.data: domain -> latest stored result (Nil: no entry)
    onDataUpdate,  \* a.onDataUpdate: "nil" or "fn"
    muWriter,      \* a.mu: the goroutine holding the write lock, or None
    muReaders,     \* a.mu: the goroutines holding the read lock
    cmu,           \* c.mu of each collector: the goroutine holding it, or None
    ctxDone,       \* a.ctx is cancelled
    wg,            \* a.wg: the WaitGroup counter
    started,       \* Start() has been called
    stopPc,        \* Stop(): "idle", "waiting" (in wg.Wait) or "returned"
    pc,            \* position of each startCollector goroutine
    calls,         \* number of Collect calls each collector has begun
    okCalls,       \* the Collect calls of each collector that succeeded
    pubPc,         \* position of the updateChecker goroutine
    cb,            \* notifyUpdate's local copy of a.onDataUpdate
    readIdx,       \* GetSystemData: the next domain to read
    snap,          \* GetSystemData: the snapshot being composed
    seen,          \* the tables a.data held while the snapshot was composed
    delivered,     \* number of callback invocations
    nTicks,        \* collector ticks served
    nPub,          \* publish ticks served
    lateStart,     \* Start() was called after Stop() had returned
    slowAtStop,    \* a Collect call was in flight when Stop() cancelled
    \* ---- time, in seconds (used by the timed specification only) ----
    now,           \* the current time
    startedAt,     \* the time of Start()
    due,           \* the time each collector's ticker delivers its next tick
    busyUntil,     \* the time each collector's Collect call in flight returns
    \* ---- the collectors (src/pkg/collectors) ----
    lastData,      \* c.lastData of each collector (<<>>: nil)
    ret,           \* the (result, error) the last Collect call returned
    systemData,    \* the snapshot the last GetSystemData call returned
    lastIO,        \* c.lastIO of the disk and network collectors
    lastIOTime,    \* c.lastIOTime of the disk and network collectors
    rates,         \* the map the last GetIORate call returned (<<>>: nil)
    sampled,       \* the last two samples each counter collector has taken
    \* ---- HistoryData (src/internal/data/system.go) ----
    historyData,   \* the HistoryData: its series and maxSize
    pushed,        \* every value added to each series, in order
    \* ---- Config (src/unnamed/part_000) ----
    cfg,           \* the configuration: its Refresh and Threshold sections,
                   \* and whether Validate has run
    intervalMap,   \* the map the last GetIntervalMap call returned (<<>>: none)
    \* ---- testCollectors (src/unnamed/part_014) ----
    mainPc,        \* position of the self-test's main flow
    \* ---- the UI Model (src/unnamed/part_002) ----
    uiPc,          \* position of the UI event loop: <<step, series>>
    mSystemData,   \* m.systemData: the snapshot the model refers to
    uiRead         \* the values the running updateHistory has passed on

alertVars == <<alerts, thresholds, history, enabled, clock, lastOp>>

muVars == <<muWriter, muReaders, cmu>>
lifeVars == <<ctxDone, wg, started, stopPc, lateStart, slowAtStop>>
collVars == <<pc, calls, okCalls, nTicks>>
pubVars == <<pubPc, cb, readIdx, snap, seen, delivered, nPub>>
aggVars == <<data, onDataUpdate, muVars, lifeVars, collVars, pubVars>>

timeVars == <<now, startedAt, due, busyUntil>>

samplerVars == <<lastData, ret, systemData>>
rateVars == <<lastIO, lastIOTime, rates, sampled>>
bufferVars == <<historyData, pushed>>
uiVars == <<uiPc, mSystemData, uiRead>>
flowVars == <<mainPc, uiVars, intervalMap>>
unitVars == <<samplerVars, rateVars, bufferVars, cfg, flowVars>>

vars == <<alertVars, aggVars, timeVars, unitVars>>

---------------------------------------------------------------------------
\* Bounds of the model
MaxValue == 3          \* checked values and thresholds range over 0..MaxValue
MaxClock == 2          \* alerts raised in the alert specification
MaxHistClock == 103    \* alerts raised in the history specification
MaxTicks == 1          \* collector ticks served after the initial collections
MaxPublish == 1        \* publish ticks served
MaxTime == 3           \* seconds the timed and the rate specifications run
NumCollectors == 2     \* collectors run, of the six NewAggregator registers
MaxSize == 3           \* capacities of the history buffer: 1..MaxSize
MaxPushValue == 4      \* values added to a history buffer: 1..MaxPushValue
MaxPushes == 4         \* values added to the history buffers
MaxCounter == 2        \* the OS counters range over 0..MaxCounter
MaxSamples == 3        \* successful collections of the counter collectors
MaxOver == 10          \* loaded thresholds range over -MaxOver..100+MaxOver
MaxStamps == 2         \* successful collections and snapshots of the collectors
MaxMillis == 1200      \* loaded refresh intervals range over 0..MaxMillis ms

Values == 0 .. MaxValue
Metrics == {"cpu", "memory"}

---------------------------------------------------------------------------
\* AlertSeverity (iota)
Info == 0
Warning == 1
Critical == 2

\* NewAlertManager: maxHistory
maxHistory == 100

EmptyMap == [k \in {} |-> 0]

\* Go map assignment m[key] = val
MapPut(m, key, val) == [k \in (DOMAIN m) \cup {key} |-> IF k = key THEN val ELSE m[k]]

\* Go delete(m, key)
MapDelete(m, key) == [k \in (DOMAIN m) \ {key} |-> m[k]]

\* NewAlertManager
AlertInit ==
    /\ alerts = EmptyMap
    /\ thresholds = EmptyMap
    /\ history = <<>>
    /\ enabled = TRUE
    /\ clock = 0
    /\ lastOp = [op |-> "NewAlertManager", metric |-> "", value |-> 0]

\* SetThreshold(metric, warning, critical)
SetThreshold(metric, warning, critical) ==
    /\ thresholds' = MapPut(thresholds, metric, [Warning |-> warning, Critical |-> critical])
    /\ lastOp' = [op |-> "SetThreshold", metric |-> metric, value |-> 0]
    /\ UNCHANGED <<alerts, history, enabled, clock, aggVars, timeVars, unitVars>>

\* SetEnabled(enabled)
SetEnabled(e) ==
    /\ enabled' = e
    /\ lastOp' = [op |-> "SetEnabled", metric |-> "", value |-> 0]
    /\ UNCHANGED <<alerts, thresholds, history, clock, aggVars, timeVars, unitVars>>

\* (variant: critical alerts kept under a key of their own)
AlertKeyBySeverity(metric, severity) == IF severity = Critical THEN "critical" ELSE metric

\* key := metric  (the key does not depend on the severity)
AlertKey(metric, severity) == metric

\* (variant: strict comparisons)
SeverityOfStrict(threshold, value) ==
    IF value > threshold.Critical THEN Critical
    ELSE IF value > threshold.Warning THEN Warning
    ELSE Info

\* The severity and message CheckValue computes from the value (lines 91-100);
\* the message is empty when the value is below both thresholds.
SeverityOf(threshold, value) ==
    IF value >= threshold.Critical THEN Critical
    ELSE IF value >= threshold.Warning THEN Warning
    ELSE Info

AlertMsg(metric, threshold, value) ==
    IF value >= threshold.Critical
    THEN <<metric, "critical", value, threshold.Critical>>
    ELSE IF value >= threshold.Warning
    THEN <<metric, "warning", value, threshold.Warning>>
    ELSE <<>>

\* The Alert built at lines 105-113
NewAlert(metric, threshold, value, severity, timeNow) ==
    [ Severity    |-> severity,
      Message     |-> AlertMsg(metric, threshold, value),
      Timestamp   |-> timeNow,
      TriggerTime |-> timeNow,
      Value       |-> value,
      Threshold   |-> threshold.Warning,
      Metric      |-> metric ]

\* (variant: the newest record is dropped)
TrimNewest(h) == IF Len(h) > maxHistory THEN SubSeq(h, 1, Len(h) - 1) ELSE h

\* Trim history (lines 118-120)
TrimHistory(h) == IF Len(h) > maxHistory THEN Tail(h) ELSE h

\* (variant: nothing is cleared)
ClearNever(key, threshold, value) == alerts

\* The clear branch (lines 122-127): the alerts map after a value with no message

ClearAlert(key, threshold, value) ==
    IF key \in DOMAIN alerts /\ value < threshold.Warning
    THEN MapDelete(alerts, key)
    ELSE alerts

\* (variant: every alerting value raises a new alert)
RaiseAlways(key, severity) == TRUE

\* The raise branch (line 104): whether a new alert replaces the map entry

RaiseNeeded(key, severity) ==
    key \notin DOMAIN alerts \/ alerts[key].Severity # severity

\* CheckValue(metric, value)
CheckValue(metric, value) ==
    /\ lastOp' = [op |-> "CheckValue", metric |-> metric, value |-> value]
    /\ UNCHANGED <<aggVars, timeVars, unitVars>>
    /\ IF ~enabled \/ metric \notin DOMAIN thresholds
       THEN UNCHANGED <<alerts, thresholds, history, enabled, clock>>
       ELSE LET threshold == thresholds[metric]
                severity  == SeverityOf(threshold, value)
                alertMsg  == AlertMsg(metric, threshold, value)
                key       == AlertKey(metric, severity)
            IN  IF alertMsg # <<>>
                THEN IF RaiseNeeded(key, severity)
                     THEN LET alert == NewAlert(metric, threshold, value, severity, clock + 1)
                          IN  /\ alerts' = MapPut(alerts, key, alert)
                              /\ history' = TrimHistory(Append(history, alert))
                              /\ clock' = clock + 1
                              /\ UNCHANGED <<thresholds, enabled>>
                     ELSE UNCHANGED <<alerts, thresholds, history, enabled, clock>>
                ELSE /\ alerts' = ClearAlert(key, threshold, value)
                     /\ UNCHANGED <<thresholds, history, enabled, clock>>

\* GetActiveAlerts: the copies of the map's values, as the set of (key, alert) pairs
GetActiveAlerts == {<<k, alerts[k]>> : k \in DOMAIN alerts}

\* GetHistory: a copy of the log
GetHistory == history

\* ClearAll
ClearAll ==
    /\ alerts' = EmptyMap
    /\ lastOp' = [op |-> "ClearAll", metric |-> "", value |-> 0]
    /\ UNCHANGED <<thresholds, history, enabled, clock, aggVars, timeVars, unitVars>>


---------------------------------------------------------------------------
\* The aggregator.  A result is identified by the number of the Collect call
\* that produced it (its LastUpdate stamp); Nil is a missing table entry.
Nil == 0
None == "none"
Publisher == "updateChecker"

\* The domains in the order GetSystemData reads them (lines 256-273)
DomainOrder == <<"cpu", "memory", "disk", "network", "sensors", "host">>

\* NewAggregator: the collectors registered (lines 70-75); the model runs the
\* first NumCollectors of them
ReadOrder == SubSeq(DomainOrder, 1, IF NumCollectors < Len(DomainOrder)
                                    THEN NumCollectors ELSE Len(DomainOrder))

Domains == {ReadOrder[i] : i \in 1 .. Len(ReadOrder)}

\* NewAggregator: data: make(map[string]interface{}), every domain without an
\* entry
TableInit == data = [d \in Domains |-> Nil]

\* NewAggregator: the other fields, and the goroutines not started
LoopInit ==
    /\ onDataUpdate = "nil"
    /\ muWriter = None
    /\ muReaders = {}
    /\ cmu = [d \in Domains |-> None]
    /\ ctxDone = FALSE
    /\ wg = 0
    /\ started = FALSE
    /\ stopPc = "idle"
    /\ pc = [d \in Domains |-> "idle"]
    /\ calls = [d \in Domains |-> 0]
    /\ okCalls = [d \in Domains |-> {}]
    /\ pubPc = "idle"
    /\ cb = "nil"
    /\ readIdx = 0
    /\ snap = [d \in Domains |-> Nil]
    /\ seen = {}
    /\ delivered = 0
    /\ nTicks = 0
    /\ nPub = 0
    /\ lateStart = FALSE
    /\ slowAtStop = FALSE

TimeInit ==
    /\ now = 0
    /\ startedAt = 0
    /\ due = [d \in Domains |-> 0]
    /\ busyUntil = [d \in Domains |-> 0]

AggInit == TableInit /\ LoopInit

\* The collectors NewAggregator creates: no data collected, no counters read
Collectors == {DomainOrder[i] : i \in 1 .. Len(DomainOrder)}
CounterCollectors == {"disk", "network"}

SamplerInit ==
    /\ lastData = [c \in Collectors |-> <<>>]
    /\ ret = [name |-> "", result |-> <<>>, err |-> ""]
    /\ systemData = [CPU |-> <<>>, Memory |-> <<>>, Disk |-> <<>>, Network |-> <<>>,
                     Sensors |-> <<>>, Host |-> <<>>, Timestamp |-> 0]

RateInit ==
    /\ lastIO = [c \in CounterCollectors |-> EmptyMap]
    /\ lastIOTime = [c \in CounterCollectors |-> 0]
    /\ rates = [collector |-> "", result |-> <<>>]
    /\ sampled = [c \in CounterCollectors |-> <<>>]

\* The series of a HistoryData that Model.updateHistory feeds
Series == {"CPU", "Memory"}

\* NewHistoryData(maxSize)
NewHistoryData(maxSize) ==
    /\ historyData = [CPU |-> <<>>, Memory |-> <<>>, maxSize |-> maxSize]
    /\ pushed = [s \in Series |-> <<>>]

\* DefaultConfig: the Threshold section
DefaultThreshold ==
    [CPUWarning |-> 70, CPUCritical |-> 90,
     MemWarning |-> 80, MemCritical |-> 95,
     TempWarning |-> 70, TempCritical |-> 85]

\* time.Duration values are counted in milliseconds
Millisecond == 1
Second == 1000 * Millisecond

\* DefaultConfig: the Refresh section
DefaultRefresh ==
    [Interval |-> 2 * Second, CPU |-> 1 * Second, Memory |-> 2 * Second,
     Disk |-> 5 * Second, Network |-> 2 * Second, Sensors |-> 5 * Second,
     Host |-> 5 * Second]

ConfigInit ==
    cfg = [Refresh |-> DefaultRefresh, Threshold |-> DefaultThreshold,
           validated |-> FALSE]

\* testCollectors: the aggregator test not begun.  NewModel not called; its
\* systemData: &data.SystemData{}
FlowInit ==
    /\ mainPc = "idle"
    /\ uiPc = <<"new", 0>>
    /\ mSystemData = [d \in Domains |-> Nil]
    /\ uiRead = <<>>
    /\ intervalMap = <<>>

\* NewModel: data.NewHistoryData(50)
Init ==
    /\ AlertInit /\ AggInit /\ TimeInit
    /\ SamplerInit /\ RateInit /\ NewHistoryData(50) /\ ConfigInit
    /\ FlowInit

\* sync.RWMutex: Lock() can be taken, RLock() can be taken
CanLock == muWriter = None /\ muReaders = {}
CanRLock == muWriter = None

\* SetOnDataUpdate(fn): Lock; a.onDataUpdate = fn; Unlock
SetOnDataUpdate ==
    /\ CanLock
    /\ onDataUpdate' = "fn"
    /\ UNCHANGED <<alertVars, data, muVars, lifeVars, collVars, pubVars>>

\* Start(): one goroutine per collector, each creating its ticker and entering
\* its initial collectFrom, and the updateChecker goroutine
Start ==
    /\ ~started
    /\ started' = TRUE
    /\ lateStart' = (stopPc = "returned")
    /\ wg' = wg + Cardinality(Domains) + 1
    /\ pc' = [d \in Domains |-> "collect"]
    /\ calls' = [d \in Domains |-> 1]
    /\ pubPc' = "select"
    /\ UNCHANGED <<alertVars, data, onDataUpdate, muVars, ctxDone, stopPc, slowAtStop,
                   okCalls, nTicks, cb, readIdx, snap, seen, delivered, nPub>>

\* Stop(): a.cancel()
StopCancel ==
    /\ stopPc = "idle"
    /\ ctxDone' = TRUE
    /\ stopPc' = "waiting"
    /\ slowAtStop' = (\E d \in Domains : pc[d] = "collect")
    /\ UNCHANGED <<alertVars, data, onDataUpdate, muVars, wg, started, lateStart,
                   collVars, pubVars>>

\* (variant: Stop() returns without waiting for the goroutines)
StopReturnNoWait ==
    /\ stopPc = "waiting"
    /\ stopPc' = "returned"
    /\ UNCHANGED <<alertVars, data, onDataUpdate, muVars, ctxDone, wg, started,
                   lateStart, slowAtStop, collVars, pubVars>>

\* Stop(): a.wg.Wait() returns
StopReturn ==
    /\ stopPc = "waiting"
    /\ wg = 0
    /\ stopPc' = "returned"
    /\ UNCHANGED <<alertVars, data, onDataUpdate, muVars, ctxDone, wg, started,
                   lateStart, slowAtStop, collVars, pubVars>>

\* (variant: the nil result of a failed collection is stored)
CollectErrStoresNil(d) ==
    /\ pc[d] = "collect"
    /\ CanLock
    /\ data' = [data EXCEPT ![d] = Nil]
    /\ pc' = [pc EXCEPT ![d] = "select"]
    /\ UNCHANGED <<alertVars, onDataUpdate, muVars, lifeVars, calls, okCalls, nTicks, pubVars>>

\* collectFrom: Collect returns an error; it is logged and nothing is stored
CollectErr(d) ==
    /\ pc[d] = "collect"
    /\ pc' = [pc EXCEPT ![d] = "select"]
    /\ UNCHANGED <<alertVars, data, onDataUpdate, muVars, lifeVars, calls, okCalls, nTicks, pubVars>>

\* Collect: the OS queries have succeeded and the metrics are built;
\* c.mu.Lock()
CollectQueried(d) ==
    /\ pc[d] = "collect"
    /\ cmu[d] = None
    /\ cmu' = [cmu EXCEPT ![d] = d]
    /\ pc' = [pc EXCEPT ![d] = "assign"]
    /\ UNCHANGED <<alertVars, data, onDataUpdate, muWriter, muReaders, lifeVars,
                   calls, okCalls, nTicks, pubVars>>

\* (variant: Collect returns without releasing the collector's lock)
CollectReturnLocked(d) ==
    /\ pc[d] = "assign"
    /\ pc' = [pc EXCEPT ![d] = "store"]
    /\ okCalls' = [okCalls EXCEPT ![d] = @ \cup {calls[d]}]
    /\ UNCHANGED <<alertVars, data, onDataUpdate, muVars, lifeVars, calls, nTicks, pubVars>>

\* Collect: c.lastData = metrics; c.mu.Unlock(); return metrics, nil
CollectOk(d) ==
    /\ pc[d] = "assign"
    /\ cmu' = [cmu EXCEPT ![d] = None]
    /\ pc' = [pc EXCEPT ![d] = "store"]
    /\ okCalls' = [okCalls EXCEPT ![d] = @ \cup {calls[d]}]
    /\ UNCHANGED <<alertVars, data, onDataUpdate, muWriter, muReaders, lifeVars,
                   calls, nTicks, pubVars>>

\* (variant: the store does not wait for the readers)
LockIgnoringReaders(d) ==
    /\ pc[d] = "store"
    /\ muWriter = None
    /\ muWriter' = d
    /\ pc' = [pc EXCEPT ![d] = "locked"]
    /\ UNCHANGED <<alertVars, data, onDataUpdate, muReaders, cmu, lifeVars, calls, okCalls, nTicks, pubVars>>

\* collectFrom: a.mu.Lock()
Lock(d) ==
    /\ pc[d] = "store"
    /\ CanLock
    /\ muWriter' = d
    /\ pc' = [pc EXCEPT ![d] = "locked"]
    /\ UNCHANGED <<alertVars, data, onDataUpdate, muReaders, cmu, lifeVars, calls, okCalls, nTicks, pubVars>>

\* collectFrom: a.data[collector.Name()] = result; a.mu.Unlock()
StoreUnlock(d) ==
    /\ pc[d] = "locked"
    /\ data' = [data EXCEPT ![d] = calls[d]]
    /\ muWriter' = None
    /\ pc' = [pc EXCEPT ![d] = "select"]
    /\ seen' = IF pubPc = "compose" THEN seen \cup {data'} ELSE seen
    /\ UNCHANGED <<alertVars, onDataUpdate, muReaders, cmu, lifeVars, calls, okCalls, nTicks,
                   pubPc, cb, readIdx, snap, delivered, nPub>>

\* (variant: the table lock is taken before Collect is called)
TickServeLocked(d) ==
    /\ pc[d] = "select"
    /\ nTicks < MaxTicks
    /\ CanLock
    /\ muWriter' = d
    /\ nTicks' = nTicks + 1
    /\ calls' = [calls EXCEPT ![d] = @ + 1]
    /\ pc' = [pc EXCEPT ![d] = "collect"]
    /\ UNCHANGED <<alertVars, data, onDataUpdate, muReaders, cmu, lifeVars, okCalls, pubVars>>

\* startCollector: case <-ticker.C
TickServe(d) ==
    /\ pc[d] = "select"
    /\ nTicks < MaxTicks
    /\ nTicks' = nTicks + 1
    /\ calls' = [calls EXCEPT ![d] = @ + 1]
    /\ pc' = [pc EXCEPT ![d] = "collect"]
    /\ UNCHANGED <<alertVars, data, onDataUpdate, muVars, lifeVars, okCalls, pubVars>>

\* (variant: the loop returns without wg.Done())
CollectorExitNoDone(d) ==
    /\ pc[d] = "select"
    /\ ctxDone
    /\ pc' = [pc EXCEPT ![d] = "done"]
    /\ UNCHANGED <<alertVars, data, onDataUpdate, muVars, lifeVars, calls, okCalls,
                   nTicks, pubVars>>

\* startCollector: case <-a.ctx.Done(): return (ticker.Stop, wg.Done)
CollectorExit(d) ==
    /\ pc[d] = "select"
    /\ ctxDone
    /\ pc' = [pc EXCEPT ![d] = "done"]
    /\ wg' = wg - 1
    /\ UNCHANGED <<alertVars, data, onDataUpdate, muVars, ctxDone, started, stopPc,
                   lateStart, slowAtStop, calls, okCalls, nTicks, pubVars>>

\* updateChecker: case <-ticker.C
PublishTick ==
    /\ pubPc = "select"
    /\ nPub < MaxPublish
    /\ nPub' = nPub + 1
    /\ pubPc' = "notify"
    /\ UNCHANGED <<alertVars, data, onDataUpdate, muVars, lifeVars, collVars,
                   cb, readIdx, snap, seen, delivered>>

\* notifyUpdate: RLock; onDataUpdate := a.onDataUpdate; RUnlock; nil check
ReadCallback ==
    /\ pubPc = "notify"
    /\ CanRLock
    /\ cb' = IF onDataUpdate # "nil" THEN onDataUpdate ELSE "nil"
    /\ pubPc' = IF onDataUpdate # "nil" THEN "rlock" ELSE "select"
    /\ UNCHANGED <<alertVars, data, onDataUpdate, muVars, lifeVars, collVars,
                   readIdx, snap, seen, delivered, nPub>>

\* GetSystemData: a.mu.RLock(); systemData := &data.SystemData{...}
ComposeRLock ==
    /\ pubPc = "rlock"
    /\ CanRLock
    /\ muReaders' = muReaders \cup {Publisher}
    /\ pubPc' = "compose"
    /\ readIdx' = 1
    /\ snap' = [d \in Domains |-> Nil]
    /\ seen' = {data}
    /\ UNCHANGED <<alertVars, data, onDataUpdate, muWriter, cmu, lifeVars, collVars,
                   cb, delivered, nPub>>

\* GetSystemData: one "if x, ok := a.data[...]; ok { systemData.X = convert(x) }"
ComposeRead ==
    /\ pubPc = "compose"
    /\ readIdx <= Len(ReadOrder)
    /\ snap' = [snap EXCEPT ![ReadOrder[readIdx]] = data[ReadOrder[readIdx]]]
    /\ readIdx' = readIdx + 1
    /\ UNCHANGED <<alertVars, data, onDataUpdate, muVars, lifeVars, collVars,
                   pubPc, cb, seen, delivered, nPub>>

\* (variant: the snapshot is handed to the callback with the read lock held)
ComposeReturnLocked ==
    /\ pubPc = "compose"
    /\ readIdx > Len(ReadOrder)
    /\ pubPc' = "callback"
    /\ UNCHANGED <<alertVars, data, onDataUpdate, muVars, lifeVars, collVars,
                   cb, readIdx, snap, seen, delivered, nPub>>

\* GetSystemData: return systemData (deferred RUnlock)
ComposeRUnlock ==
    /\ pubPc = "compose"
    /\ readIdx > Len(ReadOrder)
    /\ muReaders' = muReaders \ {Publisher}
    /\ pubPc' = "callback"
    /\ UNCHANGED <<alertVars, data, onDataUpdate, muWriter, cmu, lifeVars, collVars,
                   cb, readIdx, snap, seen, delivered, nPub>>

\* notifyUpdate: onDataUpdate(systemData) runs and returns; the locals of
\* notifyUpdate and GetSystemData go out of scope
Callback ==
    /\ pubPc = "callback"
    /\ delivered < MaxPublish
    /\ delivered' = delivered + 1
    /\ pubPc' = "select"
    /\ cb' = "nil"
    /\ readIdx' = 0
    /\ snap' = [d \in Domains |-> Nil]
    /\ seen' = {}
    /\ UNCHANGED <<alertVars, data, onDataUpdate, muVars, lifeVars, collVars, nPub>>

\* updateChecker: case <-a.ctx.Done(): return (ticker.Stop, wg.Done)
PublisherExit ==
    /\ pubPc = "select"
    /\ ctxDone
    /\ pubPc' = "done"
    /\ wg' = wg - 1
    /\ UNCHANGED <<alertVars, data, onDataUpdate, muVars, ctxDone, started, stopPc,
                   lateStart, slowAtStop, collVars, cb, readIdx, snap, seen, delivered, nPub>>

\* The aggregator with time left out: every step may take any time
Next ==
    \/ SetOnDataUpdate /\ UNCHANGED <<timeVars, unitVars>>
    \/ Start /\ UNCHANGED <<timeVars, unitVars>>
    \/ StopCancel /\ UNCHANGED <<timeVars, unitVars>>
    \/ StopReturn /\ UNCHANGED <<timeVars, unitVars>>
    \/ \E d \in Domains : CollectErr(d) /\ UNCHANGED <<timeVars, unitVars>>
    \/ \E d \in Domains : CollectQueried(d) /\ UNCHANGED <<timeVars, unitVars>>
    \/ \E d \in Domains : CollectOk(d) /\ UNCHANGED <<timeVars, unitVars>>
    \/ \E d \in Domains : Lock(d) /\ UNCHANGED <<timeVars, unitVars>>
    \/ \E d \in Domains : StoreUnlock(d) /\ UNCHANGED <<timeVars, unitVars>>
    \/ \E d \in Domains : TickServe(d) /\ UNCHANGED <<timeVars, unitVars>>
    \/ \E d \in Domains : CollectorExit(d) /\ UNCHANGED <<timeVars, unitVars>>
    \/ PublishTick /\ UNCHANGED <<timeVars, unitVars>>
    \/ ReadCallback /\ UNCHANGED <<timeVars, unitVars>>
    \/ ComposeRLock /\ UNCHANGED <<timeVars, unitVars>>
    \/ ComposeRead /\ UNCHANGED <<timeVars, unitVars>>
    \/ ComposeRUnlock /\ UNCHANGED <<timeVars, unitVars>>
    \/ Callback /\ UNCHANGED <<timeVars, unitVars>>
    \/ PublisherExit /\ UNCHANGED <<timeVars, unitVars>>

Spec == Init /\ [][Next]_vars

\* A step of the aggregator as Next takes it
Step(A) == A /\ UNCHANGED <<timeVars, unitVars>>

\* The sampler whose Collect call may block for ever: CPUCollector.Collect
\* sleeps inside cpu.Percent
SlowSampler == "cpu"

\* The goroutines are scheduled fairly and sync.RWMutex starves neither its
\* readers nor its writers; the Collect calls of the other samplers return.
\* Nothing is assumed of the Collect calls of the slow sampler, of the tickers
\* and of the callers of Start, Stop and SetOnDataUpdate.
IsolationFairness ==
    /\ \A d \in Domains \ {SlowSampler} :
          WF_vars(Step(CollectQueried(d) \/ CollectErr(d)))
    /\ \A d \in Domains :
          /\ WF_vars(Step(CollectOk(d)))
          /\ SF_vars(Step(Lock(d)))
          /\ WF_vars(Step(StoreUnlock(d)))
    /\ SF_vars(Step(ReadCallback))
    /\ SF_vars(Step(ComposeRLock))
    /\ WF_vars(Step(ComposeRead))
    /\ WF_vars(Step(ComposeRUnlock))
    /\ WF_vars(Step(Callback))

SlowSpec == Spec /\ IsolationFairness

\* The tickers never stop delivering: once the counted ticks are used up a
\* tick is served again without being counted, the Collect call it begins
\* keeping the stamp of the last one
TickServeAgain(d) ==
    /\ pc[d] = "select"
    /\ nTicks = MaxTicks
    /\ pc' = [pc EXCEPT ![d] = "collect"]
    /\ UNCHANGED <<alertVars, data, onDataUpdate, muVars, lifeVars, calls, okCalls,
                   nTicks, pubVars>>

PublishTickAgain ==
    /\ pubPc = "select"
    /\ nPub = MaxPublish
    /\ pubPc' = "notify"
    /\ UNCHANGED <<alertVars, data, onDataUpdate, muVars, lifeVars, collVars,
                   cb, readIdx, snap, seen, delivered, nPub>>

\* the callback of a publish that is not counted returns
CallbackAgain ==
    /\ pubPc = "callback"
    /\ delivered = MaxPublish
    /\ pubPc' = "select"
    /\ cb' = "nil"
    /\ readIdx' = 0
    /\ snap' = [d \in Domains |-> Nil]
    /\ seen' = {}
    /\ UNCHANGED <<alertVars, data, onDataUpdate, muVars, lifeVars, collVars,
                   delivered, nPub>>

StopNext ==
    \/ Next
    \/ \E d \in Domains : Step(TickServeAgain(d))
    \/ Step(PublishTickAgain)
    \/ Step(CallbackAgain)

\* Every Collect call and every callback invocation returns; the goroutines
\* are scheduled fairly and the RWMutex starves nobody; a select whose
\* cancellation case is ready again and again takes it in the end (the Go
\* runtime picks among the ready cases of a select at random).  Nothing is
\* assumed of the tickers and of the callers of Start, Stop and
\* SetOnDataUpdate, except that a Stop() begun runs on.
StopFairness ==
    /\ \A d \in Domains :
          /\ WF_vars(Step(CollectQueried(d) \/ CollectErr(d)))
          /\ WF_vars(Step(CollectOk(d)))
          /\ SF_vars(Step(Lock(d)))
          /\ WF_vars(Step(StoreUnlock(d)))
          /\ SF_vars(Step(CollectorExit(d)))
    /\ SF_vars(Step(ReadCallback))
    /\ SF_vars(Step(ComposeRLock))
    /\ WF_vars(Step(ComposeRead))
    /\ WF_vars(Step(ComposeRUnlock))
    /\ WF_vars(Step(Callback \/ CallbackAgain))
    /\ SF_vars(Step(PublisherExit))
    /\ WF_vars(Step(StopReturn))

StopSpec == Init /\ [][StopNext]_vars /\ StopFairness

---------------------------------------------------------------------------
\* The self-test of the aggregator (testCollectors, part_014:235-274).  Its
\* callback prints and sends on the unbuffered channel done: it returns when
\* the main flow receives.
unflowVars == <<timeVars, samplerVars, rateVars, bufferVars, cfg>>

\* aggregator := NewAggregator(aggConfig); done := make(chan bool);
\* aggregator.SetOnDataUpdate(func ...)
TestSetOnDataUpdate ==
    /\ mainPc = "idle"
    /\ SetOnDataUpdate
    /\ mainPc' = "start"
    /\ UNCHANGED <<unflowVars, uiVars, intervalMap>>

\* aggregator.Start()
TestStart ==
    /\ mainPc = "start"
    /\ Start
    /\ mainPc' = "select"
    /\ UNCHANGED <<unflowVars, uiVars, intervalMap>>

\* select: case <-done, meeting the callback's done <- true; the callback
\* returns
TestReceive ==
    /\ mainPc = "select"
    /\ Callback
    /\ mainPc' = "stop"
    /\ UNCHANGED <<unflowVars, uiVars, intervalMap>>

\* select: case <-time.After(5 * time.Second)
TestTimeout ==
    /\ mainPc = "select"
    /\ mainPc' = "stop"
    /\ UNCHANGED <<alertVars, aggVars, unflowVars, uiVars, intervalMap>>

\* aggregator.Stop(): a.cancel()
TestStopCancel ==
    /\ mainPc = "stop"
    /\ StopCancel
    /\ mainPc' = "stopping"
    /\ UNCHANGED <<unflowVars, uiVars, intervalMap>>

\* aggregator.Stop(): a.wg.Wait() returns, and testCollectors with it
TestStopReturn ==
    /\ mainPc = "stopping"
    /\ StopReturn
    /\ mainPc' = "done"
    /\ UNCHANGED <<unflowVars, uiVars, intervalMap>>

SelfTestNext ==
    \/ TestSetOnDataUpdate
    \/ TestStart
    \/ TestReceive
    \/ TestTimeout
    \/ TestStopCancel
    \/ TestStopReturn
    \/ \E d \in Domains : Step(CollectErr(d))
    \/ \E d \in Domains : Step(CollectQueried(d))
    \/ \E d \in Domains : Step(CollectOk(d))
    \/ \E d \in Domains : Step(Lock(d))
    \/ \E d \in Domains : Step(StoreUnlock(d))
    \/ \E d \in Domains : Step(TickServe(d))
    \/ \E d \in Domains : Step(CollectorExit(d))
    \/ Step(PublishTick)
    \/ Step(PublishTickAgain)
    \/ Step(ReadCallback)
    \/ Step(ComposeRLock)
    \/ Step(ComposeRead)
    \/ Step(ComposeRUnlock)
    \/ Step(PublisherExit)

SelfTestSpec == Init /\ [][SelfTestNext]_vars

---------------------------------------------------------------------------
\* The UI Model (part_002) and the aggregator it owns.  The event loop of the
\* UI runs Update and View one after the other in one goroutine; the
\* aggregator calls Model.onDataUpdate in the updateChecker goroutine.

\* The series updateHistory reads from the snapshot, in its order, among the
\* domains collected
HistoryOrder == SelectSeq(<<"cpu", "memory">>, LAMBDA d : d \in Domains)

Idle == <<"idle", 0>>

\* NewModel: m.aggregator.SetOnDataUpdate(m.onDataUpdate)
NewModel ==
    /\ uiPc = <<"new", 0>>
    /\ SetOnDataUpdate
    /\ uiPc' = <<"init", 0>>
    /\ UNCHANGED <<unflowVars, intervalMap, mainPc, mSystemData, uiRead>>

\* Model.Init: m.aggregator.Start()
ModelInit ==
    /\ uiPc = <<"init", 0>>
    /\ Start
    /\ uiPc' = Idle
    /\ UNCHANGED <<unflowVars, intervalMap, mainPc, mSystemData, uiRead>>

\* Model.onDataUpdate(d), called by notifyUpdate: m.systemData = d
ModelOnDataUpdate ==
    /\ Callback
    /\ mSystemData' = snap
    /\ UNCHANGED <<unflowVars, intervalMap, mainPc, uiPc, uiRead>>

\* Update, case tickMsg: m.updateHistory() is entered
UpdateTick ==
    /\ uiPc = Idle
    /\ uiPc' = <<"nil", 1>>
    /\ uiRead' = <<>>
    /\ UNCHANGED <<alertVars, aggVars, unflowVars, intervalMap, mainPc, mSystemData>>

\* After the series i: the next series, or updateHistory returns
NextSeries(i) == IF i < Len(HistoryOrder) THEN <<"nil", i + 1>> ELSE Idle

\* updateHistory: if m.systemData.CPU != nil  (likewise Memory)
UpdateReadNil ==
    /\ uiPc[1] = "nil"
    /\ uiPc' = IF mSystemData[HistoryOrder[uiPc[2]]] # Nil
               THEN <<"add", uiPc[2]>>
               ELSE NextSeries(uiPc[2])
    /\ UNCHANGED <<alertVars, aggVars, unflowVars, intervalMap, mainPc, mSystemData, uiRead>>

\* updateHistory: m.history.AddCPU(m.systemData.CPU.Total)
UpdateReadAdd ==
    /\ uiPc[1] = "add"
    /\ uiRead' = Append(uiRead, <<"Add", HistoryOrder[uiPc[2]],
                                  mSystemData[HistoryOrder[uiPc[2]]]>>)
    /\ uiPc' = <<"check", uiPc[2]>>
    /\ UNCHANGED <<alertVars, aggVars, unflowVars, intervalMap, mainPc, mSystemData>>

\* updateHistory: m.alertManager.CheckValue("cpu", m.systemData.CPU.Total)
UpdateReadCheck ==
    /\ uiPc[1] = "check"
    /\ uiRead' = Append(uiRead, <<"CheckValue", HistoryOrder[uiPc[2]],
                                  mSystemData[HistoryOrder[uiPc[2]]]>>)
    /\ uiPc' = NextSeries(uiPc[2])
    /\ UNCHANGED <<alertVars, aggVars, unflowVars, intervalMap, mainPc, mSystemData>>

\* View is entered
View ==
    /\ uiPc = Idle
    /\ started
    /\ uiPc' = <<"view", 1>>
    /\ UNCHANGED <<alertVars, aggVars, unflowVars, intervalMap, mainPc, mSystemData, uiRead>>

\* View: m.header.Render(m.systemData), m.dashboard.Render(m.systemData)
ViewRead ==
    /\ uiPc[1] = "view"
    /\ uiPc' = IF uiPc[2] = 1 THEN <<"view", 2>> ELSE Idle
    /\ UNCHANGED <<alertVars, aggVars, unflowVars, intervalMap, mainPc, mSystemData, uiRead>>

\* Update, case "q": m.aggregator.Stop(): a.cancel()
UpdateQuit ==
    /\ uiPc = Idle
    /\ StopCancel
    /\ uiPc' = <<"stopping", 0>>
    /\ UNCHANGED <<unflowVars, intervalMap, mainPc, mSystemData, uiRead>>

\* Update, case "q": a.wg.Wait() returns; return m, tea.Quit
UpdateQuitReturn ==
    /\ uiPc = <<"stopping", 0>>
    /\ StopReturn
    /\ uiPc' = <<"quit", 0>>
    /\ UNCHANGED <<unflowVars, intervalMap, mainPc, mSystemData, uiRead>>

UINext ==
    \/ NewModel
    \/ ModelInit
    \/ ModelOnDataUpdate
    \/ UpdateTick
    \/ UpdateReadNil
    \/ UpdateReadAdd
    \/ UpdateReadCheck
    \/ View
    \/ ViewRead
    \/ UpdateQuit
    \/ UpdateQuitReturn
    \/ \E d \in Domains : Step(CollectErr(d))
    \/ \E d \in Domains : Step(CollectQueried(d))
    \/ \E d \in Domains : Step(CollectOk(d))
    \/ \E d \in Domains : Step(Lock(d))
    \/ \E d \in Domains : Step(StoreUnlock(d))
    \/ \E d \in Domains : Step(TickServe(d))
    \/ \E d \in Domains : Step(CollectorExit(d))
    \/ Step(PublishTick)
    \/ Step(ReadCallback)
    \/ Step(ComposeRLock)
    \/ Step(ComposeRead)
    \/ Step(ComposeRUnlock)
    \/ Step(PublisherExit)

UISpec == Init /\ [][UINext]_vars

---------------------------------------------------------------------------
\* The collector loops with time.  Steps take no time, except that a Collect
\* call returns its result no earlier than QueryTime after it began and a
\* tick is served no earlier than it is due.

\* DefaultAggregatorConfig: the collector intervals, in seconds
CPUInterval == 1
MemoryInterval == 2
DiskInterval == 5
NetworkInterval == 2
SensorsInterval == 5
HostInterval == 5

\* collector.Interval()
Interval(d) ==
    CASE d = "cpu" -> CPUInterval
      [] d = "memory" -> MemoryInterval
      [] d = "disk" -> DiskInterval
      [] d = "network" -> NetworkInterval
      [] d = "sensors" -> SensorsInterval
      [] d = "host" -> HostInterval

\* The time a successful Collect call blocks: CPUCollector.Collect samples with
\* cpu.Percent(interval, true), which sleeps for the interval; the other
\* collectors only read counters
QueryTime(d) == IF d = "cpu" THEN Interval(d) ELSE 0

\* Start() at time now; each goroutine creates its ticker and begins Collect
TimedStart ==
    /\ Start
    /\ startedAt' = now
    /\ due' = [d \in Domains |-> now + Interval(d)]
    /\ busyUntil' = [d \in Domains |-> now + QueryTime(d)]
    /\ now' = now
    /\ UNCHANGED unitVars

TimedCollectQueried(d) ==
    /\ now >= busyUntil[d]
    /\ CollectQueried(d)
    /\ UNCHANGED <<timeVars, unitVars>>

\* case <-ticker.C at or after the time the tick is due; the ticker's next tick
\* is the first one after now
TimedTickServe(d) ==
    /\ now >= due[d]
    /\ TickServe(d)
    /\ due' = [due EXCEPT ![d] = @ + Interval(d) * (((now - @) \div Interval(d)) + 1)]
    /\ busyUntil' = [busyUntil EXCEPT ![d] = now + QueryTime(d)]
    /\ UNCHANGED <<now, startedAt, unitVars>>

\* A collector that can take its next step without waiting for time to pass
Ready(d) ==
    \/ pc[d] \in {"assign", "store", "locked"}
    \/ pc[d] = "collect" /\ now >= busyUntil[d]

\* One second passes
Advance ==
    /\ now < MaxTime
    /\ \A d \in Domains : ~Ready(d)
    /\ now' = now + 1
    /\ UNCHANGED <<alertVars, aggVars, startedAt, due, busyUntil, unitVars>>

TimedNext ==
    \/ TimedStart
    \/ \E d \in Domains : CollectErr(d) /\ UNCHANGED <<timeVars, unitVars>>
    \/ \E d \in Domains : TimedCollectQueried(d)
    \/ \E d \in Domains : CollectOk(d) /\ UNCHANGED <<timeVars, unitVars>>
    \/ \E d \in Domains : Lock(d) /\ UNCHANGED <<timeVars, unitVars>>
    \/ \E d \in Domains : StoreUnlock(d) /\ UNCHANGED <<timeVars, unitVars>>
    \/ \E d \in Domains : TimedTickServe(d)
    \/ Advance

TimedSpec == Init /\ [][TimedNext]_vars

---------------------------------------------------------------------------
\* The alert engine driven by its callers
\* a valid pair (warning < critical) and a degenerate one (warning = critical)
ThresholdPairs == {<<1, MaxValue - 1>>, <<MaxValue - 1, MaxValue - 1>>}

AlertNext ==
    \/ \E m \in Metrics, t \in ThresholdPairs : SetThreshold(m, t[1], t[2])
    \/ \E e \in BOOLEAN : SetEnabled(e)
    \/ \E m \in Metrics, v \in Values : CheckValue(m, v) /\ clock' <= MaxClock
    \/ ClearAll

AlertSpec == Init /\ [][AlertNext]_vars

\* One metric driven between its warning and critical levels, long enough to
\* fill the history log
HistoryLevels == {1, 2}

HistoryNext ==
    \/ SetThreshold("cpu", 1, 2)
    \/ \E v \in HistoryLevels : CheckValue("cpu", v) /\ clock' <= MaxHistClock

HistorySpec == Init /\ [][HistoryNext]_vars

---------------------------------------------------------------------------
\* The collectors.  Here a result is the record Collect builds, a pointer is a
\* sequence (<<>> is nil and <<r>> points to r), and the table a.data is the
\* Go map itself: a domain without an entry is not in its domain.  What the
\* operating system answers to the queries of a Collect call is the argument
\* os of the call.  Of the counters of an IOCountersStat the model keeps one
\* (ReadBytes, BytesSent): the code treats them all alike.

NoErr == ""

\* return nil, fmt.Errorf(...)
Failed(msg) == [result |-> <<>>, err |-> msg]

\* return metrics, nil
Succeeded(metrics) == [result |-> <<metrics>>, err |-> NoErr]

RECURSIVE SumSeq(_)
SumSeq(seq) == IF seq = <<>> THEN 0 ELSE Head(seq) + SumSeq(Tail(seq))

\* CPUCollector.Collect
CPUCollect(os, timeNow) ==
    IF os.countsErr THEN Failed("failed to get CPU counts")
    ELSE IF os.percentErr THEN Failed("failed to get CPU percentages")
    ELSE Succeeded(
           [ Usage      |-> os.percentages,
             Total      |-> IF Len(os.percentages) > 0
                            THEN SumSeq(os.percentages) \div Len(os.percentages)
                            ELSE 0,
             CoreCount  |-> os.cores,
             Times      |-> IF os.timesErr THEN <<>> ELSE os.times,
             LastUpdate |-> timeNow ])

\* &mem.SwapMemoryStat{}
EmptySwap == [Total |-> 0, Used |-> 0, Free |-> 0, UsedPercent |-> 0]

\* (variant: a failed swap query fails the collection)
MemoryCollectSwapRequired(os, timeNow) ==
    IF os.vmemErr \/ os.swapErr THEN Failed("failed to get memory")
    ELSE Succeeded(
           [ Total       |-> os.vmem.Total,
             Available   |-> os.vmem.Available,
             Used        |-> os.vmem.Used,
             UsedPercent |-> os.vmem.UsedPercent,
             Free        |-> os.vmem.Free,
             Buffers     |-> 0,
             Cached      |-> IF os.vmem.SwapCached > 0 THEN os.vmem.SwapCached ELSE 0,
             Swap        |-> os.swap,
             LastUpdate  |-> timeNow ])

\* MemoryCollector.Collect (Buffers is never assigned)
MemoryCollect(os, timeNow) ==
    IF os.vmemErr THEN Failed("failed to get virtual memory")
    ELSE Succeeded(
           [ Total       |-> os.vmem.Total,
             Available   |-> os.vmem.Available,
             Used        |-> os.vmem.Used,
             UsedPercent |-> os.vmem.UsedPercent,
             Free        |-> os.vmem.Free,
             Buffers     |-> 0,
             Cached      |-> IF os.vmem.SwapCached > 0 THEN os.vmem.SwapCached ELSE 0,
             Swap        |-> IF os.swapErr THEN EmptySwap ELSE os.swap,
             LastUpdate  |-> timeNow ])

\* DefaultAggregatorConfig: DiskIncludeAll, DiskPartitions
DiskIncludeAll == TRUE
DiskPartitions == <<>>

\* DiskCollector.Collect: the filesystem types skipped
PseudoFstypes == {"squashfs", "tmpfs", "devtmpfs", "proc", "sysfs", "cgroup",
                  "securityfs", "debugfs"}

\* DiskCollector.Collect: the partition filter
MonitoredPartition(p) ==
    /\ p.Fstype \notin PseudoFstypes
    /\ \/ DiskIncludeAll
       \/ \E i \in 1 .. Len(DiskPartitions) :
             p.Mountpoint = DiskPartitions[i] \/ p.Device = DiskPartitions[i]

\* DiskCollector.Collect
DiskCollect(os, timeNow) ==
    IF os.partitionsErr THEN Failed("failed to get disk partitions")
    ELSE LET filteredPartitions == SelectSeq(os.partitions, MonitoredPartition)
             mountpoints == {filteredPartitions[i].Mountpoint :
                                i \in 1 .. Len(filteredPartitions)}
         IN  Succeeded(
               [ Partitions |-> filteredPartitions,
                 Usage      |-> [m \in mountpoints \ os.usageErr |-> os.usage[m]],
                 IO         |-> IF os.ioErr THEN EmptyMap ELSE os.io,
                 LastUpdate |-> timeNow ])

\* DefaultAggregatorConfig: NetworkExcludeVirtual, NetworkInterfaces
NetworkExcludeVirtual == TRUE
NetworkInterfaces == <<>>

\* NetworkCollector.Collect: the interface filter (Virtual is what
\* isVirtualInterface answers for the name)
MonitoredInterface(iface) ==
    /\ ~(NetworkExcludeVirtual /\ iface.Virtual)
    /\ iface.Addrs > 0
    /\ \/ Len(NetworkInterfaces) = 0
       \/ \E i \in 1 .. Len(NetworkInterfaces) : iface.Name = NetworkInterfaces[i]

\* NetworkCollector.Collect
NetworkCollect(os, timeNow) ==
    IF os.interfacesErr THEN Failed("failed to get network interfaces")
    ELSE IF os.ioErr THEN Failed("failed to get network IO counters")
    ELSE LET filteredInterfaces == SelectSeq(os.interfaces, MonitoredInterface)
             interfacesToMonitor == {filteredInterfaces[i].Name :
                                        i \in 1 .. Len(filteredInterfaces)}
         IN  Succeeded(
               [ Interfaces |-> filteredInterfaces,
                 IO         |-> [n \in (DOMAIN os.io) \cap interfacesToMonitor |-> os.io[n]],
                 LastUpdate |-> timeNow ])

\* filterUsefulTemperatures: at most 8 sensors of each priority family; the
\* others are dropped.  Prefix is the priority prefix the sensor key starts
\* with, "" when it starts with none.
RECURSIVE filterUsefulTemperatures(_, _)
filterUsefulTemperatures(temps, priorityCount) ==
    IF temps = <<>> THEN <<>>
    ELSE LET temp == Head(temps)
             prefix == temp.Prefix
             count == IF prefix \in DOMAIN priorityCount THEN priorityCount[prefix] ELSE 0
         IN  IF prefix # "" /\ count < 8
             THEN <<temp>> \o filterUsefulTemperatures(Tail(temps),
                                  MapPut(priorityCount, prefix, count + 1))
             ELSE filterUsefulTemperatures(Tail(temps), priorityCount)

\* readFanInputs: fans that report 0 RPM are skipped
SpinningFan(fan) == fan.RPM # 0

\* collectFanSpeeds, and Collect's "fans = nil" when it fails
FanSpeeds(os) == IF os.fansErr THEN <<>> ELSE SelectSeq(os.fans, SpinningFan)

\* SensorsCollector.Collect
SensorsCollect(os, timeNow) ==
    IF os.tempsErr THEN Failed("failed to get temperature sensors")
    ELSE Succeeded(
           [ Temperatures |-> filterUsefulTemperatures(os.temps, EmptyMap),
             Fans         |-> FanSpeeds(os),
             LastUpdate   |-> timeNow ])

\* &load.AvgStat{}
EmptyLoad == [Load1 |-> 0, Load5 |-> 0, Load15 |-> 0]

\* HostCollector.Collect
HostCollect(os, timeNow) ==
    IF os.infoErr THEN Failed("failed to get host info")
    ELSE Succeeded(
           [ Info       |-> os.info,
             LoadAvg    |-> IF os.loadErr THEN <<EmptyLoad>> ELSE <<os.load>>,
             LastUpdate |-> timeNow ])

\* collector.Collect(ctx)
Collect(c, os, timeNow) ==
    CASE c = "cpu" -> CPUCollect(os, timeNow)
      [] c = "memory" -> MemoryCollect(os, timeNow)
      [] c = "disk" -> DiskCollect(os, timeNow)
      [] c = "network" -> NetworkCollect(os, timeNow)
      [] c = "sensors" -> SensorsCollect(os, timeNow)
      [] c = "host" -> HostCollect(os, timeNow)

\* The last two of the samples a counter collector has taken
LastTwo(samples) ==
    IF Len(samples) > 2 THEN SubSeq(samples, Len(samples) - 1, Len(samples)) ELSE samples

loopVars == <<onDataUpdate, muVars, lifeVars, collVars, pubVars>>

\* collectFrom(collector): Collect, which on success keeps its result in
\* c.lastData (and its counters in c.lastIO, read at c.lastIOTime), and the
\* store of the result in the table
collectFrom(c, os) ==
    LET r == Collect(c, os, clock + 1)
    IN  /\ ret' = [name |-> c, result |-> r.result, err |-> r.err]
        /\ lastOp' = [op |-> "Collect", metric |-> c, value |-> os]
        /\ IF r.err = NoErr
           THEN /\ lastData' = [lastData EXCEPT ![c] = r.result]
                /\ data' = MapPut(data, c, r.result)
                /\ clock' = clock + 1
                /\ IF c \in CounterCollectors
                   THEN /\ lastIO' = [lastIO EXCEPT ![c] = r.result[1].IO]
                        /\ lastIOTime' = [lastIOTime EXCEPT ![c] = now]
                        /\ sampled' = [sampled EXCEPT ![c] =
                              LastTwo(Append(@, [io |-> r.result[1].IO, at |-> now]))]
                   ELSE UNCHANGED <<lastIO, lastIOTime, sampled>>
           ELSE UNCHANGED <<lastData, data, clock, lastIO, lastIOTime, sampled>>
        /\ UNCHANGED <<alerts, thresholds, history, enabled, loopVars, timeVars,
                       systemData, rates, bufferVars, cfg, flowVars>>

\* convertCPUMetrics
convertCPUMetrics(m) ==
    IF m = <<>> THEN <<>>
    ELSE <<[ Usage      |-> m[1].Usage,
             Total      |-> m[1].Total,
             CoreCount  |-> m[1].CoreCount,
             Times      |-> m[1].Times,
             LastUpdate |-> m[1].LastUpdate ]>>

\* convertMemoryMetrics
convertMemoryMetrics(m) ==
    IF m = <<>> THEN <<>>
    ELSE <<[ Total       |-> m[1].Total,
             Available   |-> m[1].Available,
             Used        |-> m[1].Used,
             UsedPercent |-> m[1].UsedPercent,
             Free        |-> m[1].Free,
             Buffers     |-> m[1].Buffers,
             Cached      |-> m[1].Cached,
             Swap        |-> m[1].Swap,
             LastUpdate  |-> m[1].LastUpdate ]>>

\* convertDiskMetrics
convertDiskMetrics(m) ==
    IF m = <<>> THEN <<>>
    ELSE <<[ Partitions |-> m[1].Partitions,
             Usage      |-> m[1].Usage,
             IO         |-> m[1].IO,
             LastUpdate |-> m[1].LastUpdate ]>>

\* convertNetworkMetrics
convertNetworkMetrics(m) ==
    IF m = <<>> THEN <<>>
    ELSE <<[ Interfaces |-> m[1].Interfaces,
             IO         |-> m[1].IO,
             LastUpdate |-> m[1].LastUpdate ]>>

\* convertSensorMetrics: data.SensorMetrics has the fields Temperatures, Fans
\* and LastUpdate; the composite literal leaves Fans at its zero value, nil
convertSensorMetrics(m) ==
    IF m = <<>> THEN <<>>
    ELSE <<[ Temperatures |-> m[1].Temperatures,
             Fans         |-> <<>>,
             LastUpdate   |-> m[1].LastUpdate ]>>

\* convertHostMetrics
convertHostMetrics(m) ==
    IF m = <<>> THEN <<>>
    ELSE <<[ Info       |-> m[1].Info,
             LoadAvg    |-> m[1].LoadAvg,
             LastUpdate |-> m[1].LastUpdate ]>>

Convert(d, m) ==
    CASE d = "cpu" -> convertCPUMetrics(m)
      [] d = "memory" -> convertMemoryMetrics(m)
      [] d = "disk" -> convertDiskMetrics(m)
      [] d = "network" -> convertNetworkMetrics(m)
      [] d = "sensors" -> convertSensorMetrics(m)
      [] d = "host" -> convertHostMetrics(m)

\* (variant: an absent domain is given a zero-valued struct)
SnapshotFieldOrZero(d) ==
    IF d \in DOMAIN data /\ data[d] # <<>> THEN Convert(d, data[d])
    ELSE <<[LastUpdate |-> 0]>>

\* GetSystemData: if x, ok := a.data[d].(*XMetrics); ok { systemData.X = convertX(x) }
\* (the assertion fails for a missing entry and for a nil value)
SnapshotField(d) ==
    IF d \in DOMAIN data /\ data[d] # <<>> THEN Convert(d, data[d])
    ELSE <<>>

\* GetSystemData()
GetSystemData ==
    /\ systemData' = [ CPU       |-> SnapshotField("cpu"),
                       Memory    |-> SnapshotField("memory"),
                       Disk      |-> SnapshotField("disk"),
                       Network   |-> SnapshotField("network"),
                       Sensors   |-> SnapshotField("sensors"),
                       Host      |-> SnapshotField("host"),
                       Timestamp |-> clock + 1 ]
    /\ clock' = clock + 1
    /\ lastOp' = [op |-> "GetSystemData", metric |-> "", value |-> 0]
    /\ UNCHANGED <<alerts, thresholds, history, enabled, aggVars, timeVars,
                   lastData, ret, rateVars, bufferVars, cfg, flowVars>>

\* The field of a SystemData that holds a domain
FieldOf(sd, d) ==
    CASE d = "cpu" -> sd.CPU
      [] d = "memory" -> sd.Memory
      [] d = "disk" -> sd.Disk
      [] d = "network" -> sd.Network
      [] d = "sensors" -> sd.Sensors
      [] d = "host" -> sd.Host

---------------------------------------------------------------------------
\* The rates of the counter collectors.  A rate, the float64 quotient of a
\* counter difference and the elapsed seconds, is the pair <<difference,
\* elapsed>>.  Counters are unsigned: their arithmetic wraps around, here over
\* the range 0 .. MaxCounter.

UintSub(a, b) == (a - b + (MaxCounter + 1)) % (MaxCounter + 1)

\* DiskCollector.GetIORate(): the loop compares every entry of c.lastIO with
\* the entry of the same device in c.lastIO
DiskGetIORate ==
    IF Cardinality(DOMAIN lastIO["disk"]) = 0 THEN <<>>
    ELSE LET elapsed == now - lastIOTime["disk"]
         IN  IF elapsed = 0 THEN <<>>
             ELSE <<[device \in DOMAIN lastIO["disk"] |->
                       LET currentIO == lastIO["disk"][device]
                           lastIOOfDevice == lastIO["disk"][device]
                       IN  [ReadBytesPerSec |->
                              <<UintSub(currentIO.ReadBytes, lastIOOfDevice.ReadBytes),
                                elapsed>>]]>>

\* NetworkCollector.GetIORate(): the counter itself is divided by the time
\* since the collection
NetworkGetIORate ==
    IF Cardinality(DOMAIN lastIO["network"]) = 0 THEN <<>>
    ELSE LET elapsed == now - lastIOTime["network"]
         IN  IF elapsed = 0 THEN <<>>
             ELSE <<[iface \in DOMAIN lastIO["network"] |->
                       LET currentIO == lastIO["network"][iface]
                       IN  [BytesSentPerSec |-> <<currentIO.BytesSent, elapsed>>]]>>

\* GetIORate() of the disk or the network collector
GetIORate(c) ==
    /\ rates' = [collector |-> c,
                 result |-> IF c = "disk" THEN DiskGetIORate ELSE NetworkGetIORate]
    /\ lastOp' = [op |-> "GetIORate", metric |-> c, value |-> 0]
    /\ UNCHANGED <<alerts, thresholds, history, enabled, clock, aggVars, timeVars,
                   samplerVars, lastIO, lastIOTime, sampled, bufferVars, cfg, flowVars>>

\* The counter of a device in a sample, and the rate emitted for a device
CounterOf(c, io, device) ==
    IF c = "disk" THEN io[device].ReadBytes ELSE io[device].BytesSent

EmittedFor(c, device) ==
    rates.result # <<>> /\ device \in DOMAIN rates.result[1]

EmittedRate(c, device) ==
    IF c = "disk" THEN rates.result[1][device].ReadBytesPerSec
    ELSE rates.result[1][device].BytesSentPerSec

---------------------------------------------------------------------------
\* What the operating system answers

\* disk.Partitions(false): a physical partition and a pseudo filesystem
OSPartitions ==
    << [Device |-> "/dev/sda1", Mountpoint |-> "/", Fstype |-> "ext4"],
       [Device |-> "tmpfs", Mountpoint |-> "/run", Fstype |-> "tmpfs"] >>

\* disk.Usage(mountpoint)
OSUsage == [m \in {"/", "/run"} |-> [UsedPercent |-> 40]]

\* net.Interfaces(): a monitored interface, a virtual one and one that is down
OSInterfaces ==
    << [Name |-> "eth0", Virtual |-> FALSE, Addrs |-> 1],
       [Name |-> "docker0", Virtual |-> TRUE, Addrs |-> 1],
       [Name |-> "eth1", Virtual |-> FALSE, Addrs |-> 0] >>

\* sensors.SensorsTemperatures(): a CPU sensor and a low-priority one
OSTemperatures ==
    << [SensorKey |-> "coretemp_core0", Prefix |-> "coretemp", Temperature |-> 55],
       [SensorKey |-> "aux1", Prefix |-> "", Temperature |-> 30] >>

\* the fan inputs under /sys/class/hwmon: a spinning fan and a stopped one
OSFans ==
    << [Name |-> "nct6775_fan1", RPM |-> 1200],
       [Name |-> "nct6775_fan2", RPM |-> 0] >>

\* disk.IOCounters() and net.IOCounters(true) with the counter at n
DiskIO(n) == [device \in {"sda"} |-> [ReadBytes |-> n]]
NetIO(n) == [iface \in {"eth0", "docker0"} |-> [BytesSent |-> n]]

\* The answers to the queries of one Collect call: every query may fail
Answers(c, counters) ==
    CASE c = "cpu" ->
           [countsErr : BOOLEAN, percentErr : BOOLEAN, timesErr : BOOLEAN,
            cores : {2}, percentages : {<<40, 60>>},
            times : {<<[User |-> 7], [User |-> 9]>>}]
      [] c = "memory" ->
           [vmemErr : BOOLEAN, swapErr : BOOLEAN,
            vmem : {[Total |-> 8, Available |-> 5, Used |-> 3, UsedPercent |-> 37,
                     Free |-> 4, SwapCached |-> 1]},
            swap : {[Total |-> 2, Used |-> 1, Free |-> 1, UsedPercent |-> 50]}]
      [] c = "disk" ->
           [partitionsErr : BOOLEAN, partitions : {OSPartitions},
            usageErr : {{}, {"/"}}, usage : {OSUsage},
            ioErr : BOOLEAN, io : {DiskIO(n) : n \in counters}]
      [] c = "network" ->
           [interfacesErr : BOOLEAN, interfaces : {OSInterfaces},
            ioErr : BOOLEAN, io : {NetIO(n) : n \in counters}]
      [] c = "sensors" ->
           [tempsErr : BOOLEAN, temps : {OSTemperatures},
            fansErr : BOOLEAN, fans : {OSFans}]
      [] c = "host" ->
           [infoErr : BOOLEAN, info : {[Hostname |-> "host1", Uptime |-> 60]},
            loadErr : BOOLEAN, load : {[Load1 |-> 1, Load5 |-> 2, Load15 |-> 3]}]

\* The table of the collectors' specifications: the empty Go map
CollectorsInit ==
    /\ AlertInit /\ LoopInit /\ TimeInit
    /\ data = EmptyMap
    /\ SamplerInit /\ RateInit /\ NewHistoryData(50) /\ ConfigInit
    /\ FlowInit

\* The counter collectors sampling counters that rise and fall, and their
\* rates queried, while time passes
Counters == 0 .. MaxCounter

\* The answers in which every query succeeds
RateAnswers(c) ==
    IF c = "disk"
    THEN {os \in Answers(c, Counters) :
             ~os.partitionsErr /\ os.usageErr = {} /\ ~os.ioErr}
    ELSE {os \in Answers(c, Counters) : ~os.interfacesErr /\ ~os.ioErr}

RateNext ==
    \/ \E c \in CounterCollectors : \E os \in RateAnswers(c) :
          collectFrom(c, os) /\ clock' <= MaxSamples
    \/ \E c \in CounterCollectors : GetIORate(c)
    \/ Advance

RateSpec == CollectorsInit /\ [][RateNext]_vars

\* Every collector called with every answer, and snapshots taken
SamplerNext ==
    \/ \E c \in Collectors : \E os \in Answers(c, {1}) :
          collectFrom(c, os) /\ clock' <= MaxStamps
    \/ GetSystemData /\ clock' <= MaxStamps

SamplerSpec == CollectorsInit /\ [][SamplerNext]_vars

---------------------------------------------------------------------------
\* The history buffers (HistoryData)

\* (variant: the slice is cut as soon as it reaches maxSize)
appendAndTrimAtSize(slice, value) ==
    LET appended == Append(slice, value)
    IN  IF Len(appended) >= historyData.maxSize THEN Tail(appended) ELSE appended

\* appendAndTrim(slice, value)
appendAndTrim(slice, value) ==
    LET appended == Append(slice, value)
    IN  IF Len(appended) > historyData.maxSize THEN Tail(appended) ELSE appended

\* AddCPU(value)
AddCPU(value) ==
    /\ historyData' = [historyData EXCEPT !.CPU = appendAndTrim(@, value)]
    /\ pushed' = [pushed EXCEPT !["CPU"] = Append(@, value)]
    /\ UNCHANGED <<alertVars, aggVars, timeVars, samplerVars, rateVars, cfg, flowVars>>

\* AddMemory(value)
AddMemory(value) ==
    /\ historyData' = [historyData EXCEPT !.Memory = appendAndTrim(@, value)]
    /\ pushed' = [pushed EXCEPT !["Memory"] = Append(@, value)]
    /\ UNCHANGED <<alertVars, aggVars, timeVars, samplerVars, rateVars, cfg, flowVars>>

\* GetLatestCPU()
GetLatestCPU ==
    IF Len(historyData.CPU) = 0 THEN 0 ELSE historyData.CPU[Len(historyData.CPU)]

\* GetLatestMemory()
GetLatestMemory ==
    IF Len(historyData.Memory) = 0 THEN 0
    ELSE historyData.Memory[Len(historyData.Memory)]

\* A HistoryData of any capacity up to MaxSize, fed values by its caller
PushValues == 1 .. MaxPushValue

NumPushed == Len(pushed["CPU"]) + Len(pushed["Memory"])

BufferInit ==
    /\ AlertInit /\ AggInit /\ TimeInit /\ SamplerInit /\ RateInit /\ ConfigInit
    /\ FlowInit
    /\ \E maxSize \in 1 .. MaxSize : NewHistoryData(maxSize)

BufferNext ==
    \/ \E v \in PushValues : NumPushed < MaxPushes /\ AddCPU(v)
    \/ \E v \in PushValues : NumPushed < MaxPushes /\ AddMemory(v)

BufferSpec == BufferInit /\ [][BufferNext]_vars

---------------------------------------------------------------------------
\* The configuration.  Of Validate the model keeps the Threshold section.

\* validateThreshold(warning, critical): the two values after the call
validateThreshold(warning, critical) ==
    LET w1 == IF warning < 0 THEN 0 ELSE warning
        w2 == IF w1 > 100 THEN 100 ELSE w1
        c1 == IF critical < 0 THEN 0 ELSE critical
        c2 == IF c1 > 100 THEN 100 ELSE c1
        w3 == IF w2 >= c2 THEN c2 - 10 ELSE w2
        w4 == IF w2 >= c2 /\ w3 < 0 THEN 0 ELSE w3
    IN  [warning |-> w4, critical |-> c2]

\* Validate: minInterval := 100 * time.Millisecond
minInterval == 100 * Millisecond

\* Validate: if c.Refresh.X < minInterval { c.Refresh.X = minInterval }
ClampInterval(d) == IF d < minInterval THEN minInterval ELSE d

\* Config.Validate(): the Refresh and the Threshold sections
Validate ==
    /\ ~cfg.validated
    /\ LET t == cfg.Threshold
           cpuT == validateThreshold(t.CPUWarning, t.CPUCritical)
           memT == validateThreshold(t.MemWarning, t.MemCritical)
           tempT == validateThreshold(t.TempWarning, t.TempCritical)
       IN  cfg' = [ Refresh |-> [f \in DOMAIN cfg.Refresh |->
                                   ClampInterval(cfg.Refresh[f])],
                    Threshold |->
                      [CPUWarning |-> cpuT.warning, CPUCritical |-> cpuT.critical,
                       MemWarning |-> memT.warning, MemCritical |-> memT.critical,
                       TempWarning |-> tempT.warning, TempCritical |-> tempT.critical],
                    validated |-> TRUE ]
    /\ UNCHANGED <<alertVars, aggVars, timeVars, samplerVars, rateVars, bufferVars, flowVars>>

\* The values a configuration file may give a threshold: the range 0..100
\* and MaxOver beyond it on either side
ThresholdInputs == (0 - MaxOver) .. (100 + MaxOver)

\* Load(): the defaults, with one pair of thresholds read from the file
Loaded(section, warning, critical) ==
    CASE section = "CPU" ->
           [DefaultThreshold EXCEPT !.CPUWarning = warning, !.CPUCritical = critical]
      [] section = "Mem" ->
           [DefaultThreshold EXCEPT !.MemWarning = warning, !.MemCritical = critical]
      [] section = "Temp" ->
           [DefaultThreshold EXCEPT !.TempWarning = warning, !.TempCritical = critical]

ValidateInit ==
    /\ AlertInit /\ AggInit /\ TimeInit
    /\ SamplerInit /\ RateInit /\ NewHistoryData(50) /\ FlowInit
    /\ \E section \in {"CPU", "Mem", "Temp"}, warning \in ThresholdInputs,
          critical \in ThresholdInputs :
          cfg = [Refresh |-> DefaultRefresh,
                 Threshold |-> Loaded(section, warning, critical),
                 validated |-> FALSE]

ValidateNext == Validate

ValidateSpec == ValidateInit /\ [][ValidateNext]_vars

\* uint(d.Seconds()): the whole seconds of a duration that is not negative
WholeSeconds(d) == d \div Second

\* Config.GetIntervalMap(), called on the configuration Load() returns, which
\* has been validated
GetIntervalMap ==
    /\ cfg.validated
    /\ intervalMap = <<>>
    /\ intervalMap' = << [cpu     |-> WholeSeconds(cfg.Refresh.CPU),
                          memory  |-> WholeSeconds(cfg.Refresh.Memory),
                          disk    |-> WholeSeconds(cfg.Refresh.Disk),
                          network |-> WholeSeconds(cfg.Refresh.Network),
                          sensors |-> WholeSeconds(cfg.Refresh.Sensors),
                          host    |-> WholeSeconds(cfg.Refresh.Host)] >>
    /\ UNCHANGED <<alertVars, aggVars, timeVars, samplerVars, rateVars, bufferVars,
                   cfg, mainPc, uiVars>>

\* The refresh intervals a configuration file may give: 0 .. MaxMillis
\* milliseconds
RefreshInputs == 0 .. MaxMillis

\* Load(): the defaults, with one refresh interval read from the file
IntervalInit ==
    /\ AlertInit /\ AggInit /\ TimeInit
    /\ SamplerInit /\ RateInit /\ NewHistoryData(50) /\ FlowInit
    /\ \E f \in DOMAIN DefaultRefresh, d \in RefreshInputs :
          cfg = [Refresh |-> [DefaultRefresh EXCEPT ![f] = d],
                 Threshold |-> DefaultThreshold,
                 validated |-> FALSE]

IntervalNext == Validate \/ GetIntervalMap

IntervalSpec == IntervalInit /\ [][IntervalNext]_vars

---------------------------------------------------------------------------
\* Properties of the alert engine

\* The active alerts of a metric in an alerts map
AlertsOf(as, m) == {k \in DOMAIN as : as[k].Metric = m}

HasAlert(as, m) == AlertsOf(as, m) # {}

\* Normal (Info), Warning or Critical
MetricState(as, m) ==
    IF AlertsOf(as, m) = {} THEN Info ELSE as[CHOOSE k \in AlertsOf(as, m) : TRUE].Severity

IsCheck(op, m, v) == op = [op |-> "CheckValue", metric |-> m, value |-> v]

\* The engine is enabled and the metric has thresholds warning < critical
Armed(m) ==
    /\ enabled
    /\ m \in DOMAIN thresholds
    /\ thresholds[m].Warning < thresholds[m].Critical

\* C5: the active-alert set holds at most one alert per metric identifier,
\* whatever calls were made
C5_AtMostOneAlertPerMetric ==
    \A m \in Metrics : Cardinality({p \in GetActiveAlerts : p[2].Metric = m}) <= 1

\* an escalation happened: a Warning alert of a metric was replaced by a Critical one
C5_Witness ==
    \E m \in Metrics :
        /\ Len(history) >= 2
        /\ history[1].Metric = m /\ history[1].Severity = Warning
        /\ history[2].Metric = m /\ history[2].Severity = Critical
        /\ AlertsOf(alerts, m) # {}
        /\ \A k \in AlertsOf(alerts, m) : alerts[k] = history[2]

\* C6: with the engine enabled and warning < critical, after CheckValue(m, v)
\* the metric has no alert when v < warning and has one when v >= warning; and
\* a CheckValue step removes an alert only of its own metric and only for a
\* value below the warning threshold
C6_ClearOnlyBelowWarning ==
    [][\A m \in Metrics, v \in Values :
          IsCheck(lastOp', m, v) =>
             /\ Armed(m) =>
                  /\ v < thresholds[m].Warning => ~HasAlert(alerts', m)
                  /\ v >= thresholds[m].Warning => HasAlert(alerts', m)
             /\ \A m2 \in Metrics :
                  (HasAlert(alerts, m2) /\ ~HasAlert(alerts', m2)) =>
                     (m2 = m /\ m \in DOMAIN thresholds /\ v < thresholds[m].Warning)
      ]_vars

\* a value below the warning threshold was checked for a metric that had raised
\* an alert, and the metric has no alert now
C6_Witness ==
    \E m \in Metrics :
        /\ Armed(m)
        /\ lastOp.op = "CheckValue" /\ lastOp.metric = m
        /\ lastOp.value < thresholds[m].Warning
        /\ ~HasAlert(alerts, m)
        /\ \E i \in 1 .. Len(history) : history[i].Metric = m

\* C7: once the alert of a metric is Critical, a CheckValue with a value
\* >= warning leaves it Critical
C7_CriticalStaysCritical ==
    [][\A m \in Metrics, v \in Values :
          ( /\ IsCheck(lastOp', m, v)
            /\ Armed(m)
            /\ MetricState(alerts, m) = Critical
            /\ v >= thresholds[m].Warning )
          => MetricState(alerts', m) = Critical
      ]_vars

\* C8 as stated: from Normal, every value >= warning leads to Warning
C8_NormalAlwaysToWarning ==
    [][\A m \in Metrics, v \in Values :
          ( /\ IsCheck(lastOp', m, v)
            /\ Armed(m)
            /\ MetricState(alerts, m) = Info
            /\ v >= thresholds[m].Warning )
          => MetricState(alerts', m) = Warning
      ]_vars

\* C8 amended: from Normal a value in [warning, critical) leads to Warning
\* and a value >= critical leads to Critical directly; from Warning a value
\* >= critical leads to Critical
C8_SeverityFollowsValue ==
    [][\A m \in Metrics, v \in Values :
          ( /\ IsCheck(lastOp', m, v)
            /\ Armed(m)
            /\ MetricState(alerts, m) \in {Info, Warning} )
          => /\ (MetricState(alerts, m) = Info /\ v >= thresholds[m].Warning
                    /\ v < thresholds[m].Critical)
                => MetricState(alerts', m) = Warning
             /\ v >= thresholds[m].Critical => MetricState(alerts', m) = Critical
      ]_vars

\* a metric went from Normal straight to Critical
C8_Witness ==
    \E m \in Metrics :
        /\ Armed(m)
        /\ lastOp.op = "CheckValue" /\ lastOp.metric = m
        /\ lastOp.value >= thresholds[m].Critical
        /\ Len(history) = 1
        /\ history[1].Metric = m /\ history[1].Severity = Critical
        /\ MetricState(alerts, m) = Critical

\* C9: every CheckValue step that changes the alert state of a metric (raise,
\* severity change, clear) appends exactly one record to the history log, and
\* no step modifies the records already in the log
C9_EveryTransitionLogged ==
    [][/\ \A m \in Metrics :
            (lastOp'.op = "CheckValue" /\ MetricState(alerts, m) # MetricState(alerts', m))
            => Len(history') = Len(history) + 1
       /\ Len(history') >= Len(history)
       /\ SubSeq(history', 1, Len(history)) = history
      ]_vars

\* C10: the log never holds more than maxHistory records, and it holds the
\* most recently appended records in the order they were appended (the
\* record appended as number n carries trigger time n)
C10_HistoryBounded ==
    /\ Len(history) <= maxHistory
    /\ \A i \in 1 .. Len(history) :
          history[i].TriggerTime = clock - Len(history) + i

\* more than maxHistory records were appended and the log is full
C10_Witness ==
    /\ clock > maxHistory
    /\ Len(history) = maxHistory
    /\ history[1].TriggerTime = clock - maxHistory + 1


---------------------------------------------------------------------------
\* Properties of the aggregator

\* Stop() has returned, and it was called with the goroutines started
Quiesced == stopPc = "returned" /\ started /\ ~lateStart

\* C1: once Stop() has returned, every collector loop and the publish loop
\* have exited and no lock is held; afterwards no step stores into the table
\* and no callback is invoked
C1_ShutdownQuiescent ==
    /\ [](Quiesced => /\ \A d \in Domains : pc[d] = "done"
                      /\ pubPc = "done"
                      /\ muWriter = None /\ muReaders = {})
    /\ [][Quiesced => (data' = data /\ delivered' = delivered)]_vars

\* Stop() has returned although a Collect call was in flight when it cancelled
C1_Witness ==
    /\ Quiesced
    /\ slowAtStop
    /\ \E d \in Domains : data[d] # Nil

\* C2: a composed snapshot equals the table as it stood at one instant while
\* it was composed, and every domain in it is absent or the result of a
\* successful Collect call
C2_SnapshotNeverTorn ==
    pubPc = "callback" =>
        /\ \E t \in seen : \A d \in Domains : snap[d] = t[d]
        /\ \A d \in Domains : snap[d] # Nil => snap[d] \in okCalls[d]

\* a snapshot with a present and an absent domain was composed, and a
\* collector has stored the absent domain since
C2_Witness ==
    /\ pubPc = "callback"
    /\ \E d1, d2 \in Domains : snap[d1] # Nil /\ snap[d2] = Nil /\ data[d2] # Nil

\* C3: a Collect call that returns an error leaves the whole table as it was;
\* a table entry once present stays present; and a snapshot has every domain
\* the table had when its composition began
C3_FailureKeepsStaleValue ==
    /\ [][\A d \in Domains :
             (pc[d] = "collect" /\ pc'[d] = "select") => data' = data]_vars
    /\ [][\A d \in Domains : data[d] # Nil => data'[d] # Nil]_vars
    /\ [](pubPc = "callback" =>
             \A t \in seen, d \in Domains : t[d] # Nil => snap[d] # Nil)

\* the second Collect call of a collector failed, and the table and the
\* snapshot composed hold the result of its first call
C3_Witness ==
    \E d \in Domains :
        /\ calls[d] = 2 /\ okCalls[d] = {1}
        /\ pc[d] = "select"
        /\ data[d] = 1
        /\ pubPc = "callback" /\ snap[d] = 1

\* The first Collect call of a collector returned an error
FirstFailed(d) ==
    /\ 1 \notin okCalls[d]
    /\ calls[d] >= 2 \/ pc[d] \in {"select", "done"}

\* C4: for every collector, once a full interval has passed since Start() the
\* result of its first collection (unless that failed) is in the table
C4_FirstResultWithinInterval ==
    \A d \in Domains :
        (started /\ now - startedAt >= Interval(d) /\ ~FirstFailed(d))
        => data[d] # Nil

---------------------------------------------------------------------------
\* Properties of the history buffers

\* The last min(n, c) elements of a sequence of n
LastOf(seq, c) ==
    LET n == Len(seq)
        k == IF n < c THEN n ELSE c
    IN  SubSeq(seq, n - k + 1, n)

\* C11: after any sequence of pushes a history buffer of capacity C holds
\* exactly the last min(n, C) pushed values in insertion order, its length
\* never exceeds C, and latest() is the most recently pushed value, or 0 when
\* nothing was pushed
C11_BufferHoldsLastPushed ==
    /\ Len(historyData.CPU) <= historyData.maxSize
    /\ Len(historyData.Memory) <= historyData.maxSize
    /\ historyData.CPU = LastOf(pushed["CPU"], historyData.maxSize)
    /\ historyData.Memory = LastOf(pushed["Memory"], historyData.maxSize)
    /\ GetLatestCPU = IF pushed["CPU"] = <<>> THEN 0
                      ELSE pushed["CPU"][Len(pushed["CPU"])]
    /\ GetLatestMemory = IF pushed["Memory"] = <<>> THEN 0
                         ELSE pushed["Memory"][Len(pushed["Memory"])]

\* capacity 3, pushes 1, 2, 3, 4: the buffer holds 2, 3, 4 and latest() is 4,
\* while nothing was pushed to the other buffer
C11_Witness ==
    /\ historyData.maxSize = 3
    /\ pushed["CPU"] = <<1, 2, 3, 4>>
    /\ historyData.CPU = <<2, 3, 4>>
    /\ GetLatestCPU = 4
    /\ pushed["Memory"] = <<>> /\ GetLatestMemory = 0

---------------------------------------------------------------------------
\* Properties of the rates

\* GetIORate() of collector c has just returned
Queried(c) == lastOp.op = "GetIORate" /\ lastOp.metric = c

\* The devices of the last two samples of collector c
TwoSamples(c) == Len(sampled[c]) = 2
Previous(c) == sampled[c][1]
Current(c) == sampled[c][2]
SampledTwice(c) == (DOMAIN Previous(c).io) \cap (DOMAIN Current(c).io)

\* the rate <<difference, elapsed>> is the quotient num / den
RateIs(rate, num, den) == rate[2] # 0 /\ den # 0 /\ rate[1] * den = num * rate[2]

\* C12: for two consecutive samples of a counter of a device, the previous
\* at t1 and the current at t2 > t1 with current >= previous, the rate
\* emitted for the device is (current - previous) / (t2 - t1)
C12_RateIsDifferenceOverElapsed ==
    \A c \in CounterCollectors :
        (Queried(c) /\ TwoSamples(c)) =>
            \A device \in SampledTwice(c) :
                LET previous == CounterOf(c, Previous(c).io, device)
                    current == CounterOf(c, Current(c).io, device)
                IN  ( /\ Current(c).at > Previous(c).at
                      /\ current >= previous
                      /\ EmittedFor(c, device) )
                    => RateIs(EmittedRate(c, device),
                              current - previous, Current(c).at - Previous(c).at)

\* C13: when the current sample of a counter is lower than the previous one,
\* no rate is emitted for the device, and the tracker's baseline is the
\* current sample
C13_NoRateOnCounterReset ==
    \A c \in CounterCollectors :
        (Queried(c) /\ TwoSamples(c)) =>
            /\ lastIO[c] = Current(c).io
            /\ \A device \in SampledTwice(c) :
                  CounterOf(c, Current(c).io, device) < CounterOf(c, Previous(c).io, device)
                  => ~EmittedFor(c, device)

\* C14: no rate is emitted when the last two samples carry the same
\* timestamp, nor before a first sample exists, and no rate is a division by
\* zero
C14_NoRateWithoutElapsedTime ==
    \A c \in CounterCollectors :
        Queried(c) =>
            /\ Len(sampled[c]) = 0 => rates.result = <<>>
            /\ (TwoSamples(c) /\ Current(c).at = Previous(c).at) => rates.result = <<>>
            /\ rates.result # <<>> =>
                  \A device \in DOMAIN rates.result[1] : EmittedRate(c, device)[2] # 0

---------------------------------------------------------------------------
\* Properties of the collectors and of the snapshot

\* GetSystemData() has just returned systemData
SnapshotTaken == lastOp.op = "GetSystemData"

\* Collect of collector c has just returned ret, the operating system having
\* answered lastOp.value
Collected(c) == lastOp.op = "Collect" /\ lastOp.metric = c

\* C15: a snapshot carries, for every domain with a stored result, all the
\* fields of that result unchanged, the fans of the sensors included
C15_SnapshotCarriesAllFields ==
    SnapshotTaken =>
        \A d \in Collectors :
            d \in DOMAIN data => FieldOf(systemData, d) = data[d]

\* C16: the table has an entry for a domain exactly when a Collect call of
\* the domain has succeeded, and a snapshot's domain is nil exactly when the
\* table has no entry; a domain that is present carries the result stored,
\* never a zero-valued struct
C16_AbsentIffNeverStored ==
    /\ \A d \in Collectors :
          /\ d \in DOMAIN data <=> lastData[d] # <<>>
          /\ d \in DOMAIN data => data[d] # <<>>
    /\ SnapshotTaken =>
          \A d \in Collectors :
              /\ FieldOf(systemData, d) = <<>> <=> d \notin DOMAIN data
              /\ (d \in DOMAIN data /\ FieldOf(systemData, d) # <<>>) =>
                    /\ FieldOf(systemData, d)[1].LastUpdate = data[d][1].LastUpdate
                    /\ FieldOf(systemData, d)[1].LastUpdate >= 1

\* a snapshot taken with one domain stored and another one absent, the last
\* Collect call of the absent one having failed
C16_Witness ==
    /\ SnapshotTaken
    /\ ret.err # NoErr
    /\ FieldOf(systemData, ret.name) = <<>>
    /\ \E d \in Collectors : FieldOf(systemData, d) # <<>>

\* C17: the sensors Collect succeeds whatever capability is missing, with an
\* empty list for a capability whose query failed
C17_MissingCapabilityIsNotAnError ==
    Collected("sensors") =>
        /\ ret.err = NoErr
        /\ ret.result # <<>>
        /\ lastOp.value.tempsErr => ret.result[1].Temperatures = <<>>
        /\ lastOp.value.fansErr => ret.result[1].Fans = <<>>

\* The primary query of a collector failed
PrimaryErr(c, os) ==
    CASE c = "memory" -> os.vmemErr
      [] c = "host" -> os.infoErr
      [] c = "disk" -> os.partitionsErr

\* The sub-fields of a result whose optional queries failed are empty, and a
\* partition whose usage cannot be read is skipped
OptionalEmpty(c, os, metrics) ==
    CASE c = "memory" ->
           metrics.Swap = IF os.swapErr THEN EmptySwap ELSE os.swap
      [] c = "host" ->
           metrics.LoadAvg = IF os.loadErr THEN <<EmptyLoad>> ELSE <<os.load>>
      [] c = "disk" ->
           /\ metrics.IO = IF os.ioErr THEN EmptyMap ELSE os.io
           /\ DOMAIN metrics.Usage = {"/"} \ os.usageErr

\* C18: for the memory, host and disk collectors, a Collect call whose
\* primary query succeeds returns a result, whatever optional query fails,
\* with that sub-field empty or that partition skipped; a Collect call whose
\* primary query fails returns an error and no result and leaves the
\* collector's last data (and the table) as they were
C18_OptionalFailuresTolerated ==
    [][\A c \in {"memory", "host", "disk"} :
          (lastOp'.op = "Collect" /\ lastOp'.metric = c) =>
              IF PrimaryErr(c, lastOp'.value)
              THEN /\ ret'.err # NoErr
                   /\ ret'.result = <<>>
                   /\ lastData' = lastData
                   /\ data' = data
              ELSE /\ ret'.err = NoErr
                   /\ ret'.result # <<>>
                   /\ lastData'[c] = ret'.result
                   /\ OptionalEmpty(c, lastOp'.value, ret'.result[1])
      ]_vars

\* the memory collector succeeded without swap statistics, and its next
\* call failed on the primary query
C18_Witness ==
    /\ Collected("memory")
    /\ lastOp.value.vmemErr
    /\ ret.err # NoErr
    /\ lastData["memory"] # <<>>
    /\ lastData["memory"][1].Swap = EmptySwap

---------------------------------------------------------------------------
\* Properties of the configuration

\* C19: after Validate, every pair of thresholds satisfies
\* 0 <= warning < critical <= 100, whatever values were loaded
C19_ValidatedThresholdsOrdered ==
    cfg.validated =>
        LET t == cfg.Threshold
        IN  /\ 0 <= t.CPUWarning /\ t.CPUWarning < t.CPUCritical /\ t.CPUCritical <= 100
            /\ 0 <= t.MemWarning /\ t.MemWarning < t.MemCritical /\ t.MemCritical <= 100
            /\ 0 <= t.TempWarning /\ t.TempWarning < t.TempCritical /\ t.TempCritical <= 100

---------------------------------------------------------------------------
\* More properties of the alert engine

\* The threshold of a metric that an alert of a severity has crossed
CrossedThreshold(m, severity) ==
    IF severity = Critical THEN thresholds[m].Critical ELSE thresholds[m].Warning

\* C20: the alert a CheckValue call raises records the threshold that was
\* crossed, the warning threshold for a Warning alert and the critical one
\* for a Critical alert, in the active set and in the history log
C20_AlertRecordsCrossedThreshold ==
    [][\A m \in Metrics :
          ( /\ lastOp'.op = "CheckValue" /\ lastOp'.metric = m
            /\ Len(history') = Len(history) + 1 )
          => /\ history'[Len(history')].Threshold
                   = CrossedThreshold(m, history'[Len(history')].Severity)
             /\ alerts'[m].Threshold = CrossedThreshold(m, alerts'[m].Severity)
      ]_vars

---------------------------------------------------------------------------
\* Properties of the locking and of the life cycle

\* the locks of a.mu the publish loop holds
HeldByPublisher == (IF muWriter = Publisher THEN {"write"} ELSE {})
                   \cup (IF Publisher \in muReaders THEN {"read"} ELSE {})

\* C21: while the registered callback runs, the publish loop holds neither
\* the read nor the write lock of the aggregator, so that a Lock() taken by
\* the callback (SetOnDataUpdate) or by a sampler's store is not blocked by
\* the publish loop; and the snapshot handed over was composed under the read
\* lock
C21_CallbackRunsUnlocked ==
    /\ pubPc = "callback" =>
            /\ HeldByPublisher = {}
            /\ (muWriter = None => CanLock)
    /\ pubPc = "compose" => HeldByPublisher = {"read"}

\* the callback is running while a sampler is about to store its result and
\* the lock is free
C21_Witness ==
    /\ pubPc = "callback"
    /\ cb = "fn"
    /\ \E d \in Domains : pc[d] = "store"
    /\ muWriter = None

\* the locks a sampler holds: the aggregator's table lock and its collector's
LocksHeldBy(d) == (IF muWriter = d THEN {"a.mu"} ELSE {})
                  \cup (IF d \in muReaders THEN {"a.mu (read)"} ELSE {})
                  \cup (IF cmu[d] = d THEN {"c.mu"} ELSE {})

\* C22: a sampler inside the OS-query part of Collect holds neither the
\* aggregator's table lock nor its collector's lock; the write lock is held by
\* a sampler only between Collect's successful return and the store, and a
\* failed collection changes no lock
C22_NoLockAcrossQuery ==
    /\ [](\A d \in Domains : pc[d] = "collect" => LocksHeldBy(d) = {})
    /\ [](\A d \in Domains : muWriter = d => pc[d] = "locked" /\ calls[d] \in okCalls[d])
    /\ [][\A d \in Domains :
            (pc[d] = "collect" /\ pc'[d] = "select") =>
                (muWriter' = muWriter /\ muReaders' = muReaders /\ cmu' = cmu)]_vars

\* a sampler is inside the OS queries of its second Collect call, after its
\* first result was stored under the two locks, while another sampler holds
\* the table lock
C22_Witness ==
    \E d, e \in Domains :
        /\ pc[d] = "collect" /\ calls[d] = 2 /\ data[d] = 1
        /\ muWriter = e

\* C23: whatever time the slow sampler spends inside Collect, also for ever,
\* every collection another sampler has begun ends, with its result stored
\* when it succeeded, and every publish the publish loop has begun ends with
\* the callback returned
C23_SlowSamplerIsolated ==
    /\ \A d \in Domains \ {SlowSampler} :
          /\ (pc[d] = "collect") ~> (pc[d] = "select")
          /\ (pc[d] = "store") ~> (pc[d] = "select" /\ data[d] = calls[d])
    /\ (pubPc = "notify") ~> (pubPc = "select")
    /\ (pubPc = "callback") ~> (pubPc = "select" /\ delivered > 0)

\* the slow sampler is still inside its first Collect call while another
\* sampler has stored the result of its second and a snapshot was delivered
C23_Witness ==
    /\ pc[SlowSampler] = "collect" /\ calls[SlowSampler] = 1
    /\ \E d \in Domains \ {SlowSampler} : calls[d] = 2 /\ data[d] = 2
    /\ delivered > 0

\* C24: a Stop() called with the loops started returns in the end, although
\* the tickers never stop delivering ticks
C24_StopTerminates ==
    (stopPc = "waiting" /\ started) ~> (stopPc = "returned")

\* after the cancellation, with no Collect call in flight when it was issued,
\* a sampler that had finished its first collection is inside Collect again:
\* it has served a tick with the cancellation pending
C24_Witness ==
    /\ stopPc = "waiting" /\ ctxDone /\ ~slowAtStop
    /\ \E d \in Domains : pc[d] = "collect" /\ calls[d] = 2

\* C26: once the context is cancelled no sampler loop leaves its select for a
\* new collection and the publish loop leaves its select for no new publish
C26_NoCycleAfterCancel ==
    [][ctxDone =>
         /\ \A d \in Domains : ~(pc[d] = "select" /\ pc'[d] = "collect")
         /\ ~(pubPc = "select" /\ pubPc' = "notify")]_vars

\* C27: once Stop() has returned, whether Start() was called before it or is
\* called after it, no Collect call runs its queries and the result table
\* does not change
C27_StopIsFinal ==
    [][stopPc = "returned" =>
         /\ \A d \in Domains : pc[d] = "collect" => pc'[d] = "collect"
         /\ data' = data]_vars

---------------------------------------------------------------------------
\* Properties of the self-test

\* the publish loop is inside the callback, at its send on done, and the main
\* flow has left the select that receives from done
BlockedInSend == pubPc = "callback" /\ mainPc \notin {"idle", "start", "select"}

\* C25: in the self-test the publish loop is never blocked in the callback's
\* channel send while Stop() waits for the loops to exit
C25_SelfTestStopReturns == ~(mainPc = "stopping" /\ BlockedInSend)

---------------------------------------------------------------------------
\* Properties of the UI model

\* the updateChecker goroutine is about to write m.systemData
WritePending == pubPc = "callback" /\ cb = "fn"

\* the UI goroutine is about to read m.systemData
ReadPending == uiPc[1] \in {"nil", "add", "check", "view"}

\* C28: the write of m.systemData by the callback and a read of it by
\* updateHistory or View are never both about to run: one is ordered before
\* the other
C28_SnapshotReferenceOrdered == ~(WritePending /\ ReadPending)

---------------------------------------------------------------------------
\* Properties of the refresh intervals

\* C29: the interval GetIntervalMap gives each sampler, for a validated
\* configuration, is at least one second
C29_SamplerIntervalPositive ==
    intervalMap # <<>> =>
        \A d \in DOMAIN intervalMap[1] : intervalMap[1][d] >= 1

---------------------------------------------------------------------------
\* C30: a CheckValue(m, v) of a metric whose active alert already has the
\* severity the value implies changes neither the active alerts nor the
\* history log
C30_SteadyCheckIdempotent ==
    [][\A m \in Metrics, v \in Values :
          ( /\ IsCheck(lastOp', m, v)
            /\ enabled
            /\ m \in DOMAIN thresholds
            /\ HasAlert(alerts, m)
            /\ MetricState(alerts, m) = SeverityOf(thresholds[m], v) )
          => (alerts' = alerts /\ history' = history)
      ]_vars

\* a metric with an active alert was checked again at a different value of
\* the same severity: the alert still carries the value and the trigger time
\* of the first check, and the log has the one record
C30_Witness ==
    \E m \in Metrics :
        /\ Armed(m)
        /\ lastOp.op = "CheckValue" /\ lastOp.metric = m
        /\ HasAlert(alerts, m)
        /\ MetricState(alerts, m) = SeverityOf(thresholds[m], lastOp.value)
        /\ \A k \in AlertsOf(alerts, m) : alerts[k].Value # lastOp.value
        /\ Len(history) = 1

===========================================================================
